---- MODULE Spec2Model ----
(***************************************************************************)
(* Administrative and accounting core of the multichain gas station        *)
(* contract (src/src/impl_management.rs) as a state machine.  Every public *)
(* method of the impl block is one action; a panicking call reverts, so it *)
(* leaves the contract state unchanged and only records its error.         *)
(***************************************************************************)
EXTENDS Integers, Sequences, FiniteSets, TLC

VARIABLES
    owner,                          \* Owner::own_get_owner(): the current owner
    expire_sequence_after_ns,       \* Contract.expire_sequence_after_ns
    signer_contract_id,             \* Contract.signer_contract_id
    signer_contract_public_key,     \* Contract.signer_contract_public_key : Option<PublicKey>
    flags,                          \* Contract.flags
    receiver_whitelist,             \* Contract.receiver_whitelist : set of ForeignAddress
    sender_whitelist,               \* Contract.sender_whitelist : set of AccountId
    foreign_chains,                 \* Contract.foreign_chains : chain id -> ChainConfiguration
    collected_fees,                 \* Contract.collected_fees : AssetId -> U128
    pending_transaction_sequences,  \* Contract.pending_transaction_sequences, in storage order
    promises,                       \* ext_signer public_key() calls in flight (target signer ids)
    transfers,                      \* AssetId::transfer promises handed out so far
    last                            \* the last call: method, caller, arguments, error, return value

contract == <<owner, expire_sequence_after_ns, signer_contract_id,
              signer_contract_public_key, flags, receiver_whitelist,
              sender_whitelist, foreign_chains, collected_fees,
              pending_transaction_sequences>>

vars == <<owner, expire_sequence_after_ns, signer_contract_id,
          signer_contract_public_key, flags, receiver_whitelist,
          sender_whitelist, foreign_chains, collected_fees,
          pending_transaction_sequences, promises, transfers, last>>

----
\* Values and input domains

\* Option<T>: None is the empty tuple, Some(v) the one-element tuple <<v>>
None == <<>>

Some(v) == <<v>>

OwnerId == "owner.near"
Mallory == "mallory.near"
\* env::current_account_id(): the gas station contract itself
current_account_id == "gas-station.near"

Callers == {OwnerId, Mallory}

SignerIds == {"signer-a.near", "signer-b.near"}

\* The key the signer contract s answers public_key() with.
PublicKeyOf(s) == <<"pk", s>>

\* Error messages of the panics
OK == "ok"
ErrOwner == "Owner only"
ErrPrivate == "Method is private"
ErrOneYocto == "Requires attached deposit of exactly 1 yoctoNEAR"
ErrSignerKey == "Failed to load signer public key from the signer contract"
ErrNoChain == "Foreign chain does not exist"
ErrIndex == "Invalid index"
ErrKeyPath == "Paymaster key path must not be a valid account id"
ErrNoFee == "No fee entry for provided asset ID"
ErrFees == "Not enough fees to withdraw"
ErrUnwrapNone == "called Option::unwrap() on a None value"

\* In-flight public_key() calls the model follows at once
MaxPending == 2

----
\* Shared steps

Call(op, caller, args, err, out, pre) ==
    [op |-> op, caller |-> caller, args |-> args, err |-> err, out |-> out, pre |-> pre]

\* A successful call returns: last records it.
Return(op, caller, args, out, pre) ==
    last' = Call(op, caller, args, OK, out, pre)

\* env::panic_str / require! / unwrap failure: the receipt fails, every state
\* change of the call is reverted and no promise it created is scheduled.
Panic(op, caller, args, err, pre) ==
    /\ last' = Call(op, caller, args, err, None, pre)
    /\ UNCHANGED <<contract, promises, transfers>>

\* assert_owner with the check left out
assert_owner_skipped(caller) == TRUE

\* Owner::assert_owner: the predecessor must be the current owner.
assert_owner(caller) == owner = Some(caller)

\* assert_one_yocto with the check left out
assert_one_yocto_any_deposit(deposit) == TRUE

\* near_sdk::assert_one_yocto
assert_one_yocto(deposit) == deposit = 1

----
\* Expiry and flags

set_expire_sequence_after_ns(caller, ns) ==
    LET op == "set_expire_sequence_after_ns" IN
    IF ~assert_owner(caller)
    THEN Panic(op, caller, <<ns>>, ErrOwner, None)
    ELSE /\ expire_sequence_after_ns' = ns
         /\ Return(op, caller, <<ns>>, None, None)
         /\ UNCHANGED <<owner, signer_contract_id, signer_contract_public_key, flags,
                        receiver_whitelist, sender_whitelist, foreign_chains,
                        collected_fees, pending_transaction_sequences, promises, transfers>>

set_flags(caller, f) ==
    LET op == "set_flags" IN
    IF ~assert_owner(caller)
    THEN Panic(op, caller, <<f>>, ErrOwner, None)
    ELSE /\ flags' = f
         /\ Return(op, caller, <<f>>, None, None)
         /\ UNCHANGED <<owner, expire_sequence_after_ns, signer_contract_id,
                        signer_contract_public_key, receiver_whitelist, sender_whitelist,
                        foreign_chains, collected_fees, pending_transaction_sequences,
                        promises, transfers>>

----
\* Signer key reconciliation

\* set_signer_contract_id that keeps the cached key of the previous signer
set_signer_contract_id_keeps_key(caller, account_id) ==
    LET op == "set_signer_contract_id" IN
    IF ~assert_owner(caller)
    THEN Panic(op, caller, <<account_id>>, ErrOwner, None)
    ELSE /\ signer_contract_id' = account_id
         /\ Return(op, caller, <<account_id>>, None, None)
         /\ UNCHANGED <<owner, expire_sequence_after_ns, signer_contract_public_key, flags,
                        receiver_whitelist, sender_whitelist, foreign_chains, collected_fees,
                        pending_transaction_sequences, promises, transfers>>

set_signer_contract_id(caller, account_id) ==
    LET op == "set_signer_contract_id" IN
    IF ~assert_owner(caller)
    THEN Panic(op, caller, <<account_id>>, ErrOwner, None)
    ELSE /\ IF signer_contract_id # account_id
            THEN /\ signer_contract_id' = account_id
                 /\ signer_contract_public_key' = None
            ELSE UNCHANGED <<signer_contract_id, signer_contract_public_key>>
         /\ Return(op, caller, <<account_id>>, None, None)
         /\ UNCHANGED <<owner, expire_sequence_after_ns, flags, receiver_whitelist,
                        sender_whitelist, foreign_chains, collected_fees,
                        pending_transaction_sequences, promises, transfers>>

\* Issues ext_signer::ext(signer_contract_id).public_key() and chains the
\* callback; the call returns before the callback runs.
refresh_signer_public_key(caller) ==
    LET op == "refresh_signer_public_key" IN
    IF ~assert_owner(caller)
    THEN Panic(op, caller, <<>>, ErrOwner, None)
    ELSE /\ Len(promises) < MaxPending
         /\ promises' = Append(promises, signer_contract_id)
         /\ Return(op, caller, <<>>, Some(<<"Promise", "public_key", signer_contract_id>>), None)
         /\ UNCHANGED <<contract, transfers>>

\* Sequence s without its i-th element
RemoveAt(s, i) == [j \in 1..(Len(s) - 1) |-> IF j < i THEN s[j] ELSE s[j + 1]]

\* The continuation without #[private]: any caller's result is stored
refresh_signer_public_key_callback_public(caller, result) ==
    /\ caller # current_account_id
    /\ signer_contract_public_key' = Some(result[2])
    /\ Return("refresh_signer_public_key_callback", caller, <<result>>, None, None)
    /\ UNCHANGED <<owner, expire_sequence_after_ns, signer_contract_id, flags,
                   receiver_whitelist, sender_whitelist, foreign_chains,
                   collected_fees, pending_transaction_sequences, promises, transfers>>

\* The continuation that gives the cached key up when the remote call failed
refresh_signer_public_key_callback_forgets(i, result) ==
    LET op == "refresh_signer_public_key_callback" IN
    /\ i \in 1..Len(promises)
    /\ result \in {<<"Ok", PublicKeyOf(promises[i])>>, <<"Err", <<"PromiseError">>>>}
    /\ promises' = RemoveAt(promises, i)
    /\ signer_contract_public_key' = IF result[1] = "Err" THEN None ELSE Some(result[2])
    /\ last' = Call(op, current_account_id, <<result>>,
                    IF result[1] = "Err" THEN ErrSignerKey ELSE OK, None, None)
    /\ UNCHANGED <<owner, expire_sequence_after_ns, signer_contract_id, flags,
                   receiver_whitelist, sender_whitelist, foreign_chains,
                   collected_fees, pending_transaction_sequences, transfers>>

\* The callback receipt of the i-th in-flight public_key() call, run by the
\* runtime with the contract as predecessor; result is the callback_result.
refresh_signer_public_key_callback(i, result) ==
    LET op == "refresh_signer_public_key_callback" IN
    /\ i \in 1..Len(promises)
    /\ result \in {<<"Ok", PublicKeyOf(promises[i])>>, <<"Err", <<"PromiseError">>>>}
    /\ promises' = RemoveAt(promises, i)
    /\ IF result[1] = "Err"
       THEN /\ last' = Call(op, current_account_id, <<result>>, ErrSignerKey, None, None)
            /\ UNCHANGED <<contract, transfers>>
       ELSE /\ signer_contract_public_key' = Some(result[2])
            /\ Return(op, current_account_id, <<result>>, None, None)
            /\ UNCHANGED <<owner, expire_sequence_after_ns, signer_contract_id, flags,
                           receiver_whitelist, sender_whitelist, foreign_chains,
                           collected_fees, pending_transaction_sequences, transfers>>

\* #[private]: a direct call by any account other than the contract panics.
refresh_signer_public_key_callback_external(caller, result) ==
    /\ caller # current_account_id
    /\ Panic("refresh_signer_public_key_callback", caller, <<result>>, ErrPrivate, None)

\* kdf::get_mpc_address of the cached key, the contract's id and the account.
get_mpc_address(public_key, predecessor, path) == <<"ForeignAddress", public_key, predecessor, path>>

get_foreign_address_for(caller, account_id) ==
    LET op == "get_foreign_address_for" IN
    IF signer_contract_public_key = None
    THEN Panic(op, caller, <<account_id>>, ErrUnwrapNone, None)
    ELSE /\ Return(op, caller, <<account_id>>,
                   Some(get_mpc_address(signer_contract_public_key[1], current_account_id,
                                        account_id)),
                   None)
         /\ UNCHANGED <<contract, promises, transfers>>

----
\* Admission control: the two whitelists

RECURSIVE insert_all_toggles(_, _)
\* insert that removes an address already present
insert_all_toggles(whitelist, addresses) ==
    IF addresses = <<>> THEN whitelist
    ELSE insert_all_toggles(
             IF Head(addresses) \in whitelist THEN whitelist \ {Head(addresses)}
             ELSE whitelist \cup {Head(addresses)},
             Tail(addresses))

RECURSIVE insert_all(_, _)
\* for address in addresses { whitelist.insert(address); }
insert_all(whitelist, addresses) ==
    IF addresses = <<>> THEN whitelist
    ELSE insert_all(whitelist \cup {Head(addresses)}, Tail(addresses))

\* remove that empties the whitelist
remove_all_clears(whitelist, addresses) ==
    IF addresses = <<>> THEN whitelist ELSE {}

RECURSIVE remove_all(_, _)
\* for address in addresses { whitelist.remove(&address); }
remove_all(whitelist, addresses) ==
    IF addresses = <<>> THEN whitelist
    ELSE remove_all(whitelist \ {Head(addresses)}, Tail(addresses))

add_to_receiver_whitelist(caller, addresses) ==
    LET op == "add_to_receiver_whitelist" IN
    IF ~assert_owner(caller)
    THEN Panic(op, caller, <<addresses>>, ErrOwner, Some(receiver_whitelist))
    ELSE /\ receiver_whitelist' = insert_all(receiver_whitelist, addresses)
         /\ Return(op, caller, <<addresses>>, None, Some(receiver_whitelist))
         /\ UNCHANGED <<owner, expire_sequence_after_ns, signer_contract_id,
                        signer_contract_public_key, flags, sender_whitelist, foreign_chains,
                        collected_fees, pending_transaction_sequences, promises, transfers>>

remove_from_receiver_whitelist(caller, addresses) ==
    LET op == "remove_from_receiver_whitelist" IN
    IF ~assert_owner(caller)
    THEN Panic(op, caller, <<addresses>>, ErrOwner, Some(receiver_whitelist))
    ELSE /\ receiver_whitelist' = remove_all(receiver_whitelist, addresses)
         /\ Return(op, caller, <<addresses>>, None, Some(receiver_whitelist))
         /\ UNCHANGED <<owner, expire_sequence_after_ns, signer_contract_id,
                        signer_contract_public_key, flags, sender_whitelist, foreign_chains,
                        collected_fees, pending_transaction_sequences, promises, transfers>>

clear_receiver_whitelist(caller) ==
    LET op == "clear_receiver_whitelist" IN
    IF ~assert_owner(caller)
    THEN Panic(op, caller, <<>>, ErrOwner, Some(receiver_whitelist))
    ELSE /\ receiver_whitelist' = {}
         /\ Return(op, caller, <<>>, None, Some(receiver_whitelist))
         /\ UNCHANGED <<owner, expire_sequence_after_ns, signer_contract_id,
                        signer_contract_public_key, flags, sender_whitelist, foreign_chains,
                        collected_fees, pending_transaction_sequences, promises, transfers>>

add_to_sender_whitelist(caller, addresses) ==
    LET op == "add_to_sender_whitelist" IN
    IF ~assert_owner(caller)
    THEN Panic(op, caller, <<addresses>>, ErrOwner, Some(sender_whitelist))
    ELSE /\ sender_whitelist' = insert_all(sender_whitelist, addresses)
         /\ Return(op, caller, <<addresses>>, None, Some(sender_whitelist))
         /\ UNCHANGED <<owner, expire_sequence_after_ns, signer_contract_id,
                        signer_contract_public_key, flags, receiver_whitelist, foreign_chains,
                        collected_fees, pending_transaction_sequences, promises, transfers>>

remove_from_sender_whitelist(caller, addresses) ==
    LET op == "remove_from_sender_whitelist" IN
    IF ~assert_owner(caller)
    THEN Panic(op, caller, <<addresses>>, ErrOwner, Some(sender_whitelist))
    ELSE /\ sender_whitelist' = remove_all(sender_whitelist, addresses)
         /\ Return(op, caller, <<addresses>>, None, Some(sender_whitelist))
         /\ UNCHANGED <<owner, expire_sequence_after_ns, signer_contract_id,
                        signer_contract_public_key, flags, receiver_whitelist, foreign_chains,
                        collected_fees, pending_transaction_sequences, promises, transfers>>

clear_sender_whitelist(caller) ==
    LET op == "clear_sender_whitelist" IN
    IF ~assert_owner(caller)
    THEN Panic(op, caller, <<>>, ErrOwner, Some(sender_whitelist))
    ELSE /\ sender_whitelist' = {}
         /\ Return(op, caller, <<>>, None, Some(sender_whitelist))
         /\ UNCHANGED <<owner, expire_sequence_after_ns, signer_contract_id,
                        signer_contract_public_key, flags, receiver_whitelist, foreign_chains,
                        collected_fees, pending_transaction_sequences, promises, transfers>>

----
\* Foreign chain registry

\* UNCHANGED for an operation that writes foreign_chains only
ChainFrame == UNCHANGED <<owner, expire_sequence_after_ns, signer_contract_id,
                          signer_contract_public_key, flags, receiver_whitelist,
                          sender_whitelist, collected_fees, pending_transaction_sequences,
                          promises, transfers>>

\* The configuration that insert and remove_entry hand back for chain_id: the
\* one the map held, if any
previous(chain_id) ==
    IF chain_id \in DOMAIN foreign_chains THEN Some(foreign_chains[chain_id]) ELSE None

\* add_foreign_chain that keeps the paymaster pool of a chain it replaces
add_foreign_chain_keeps_pool(caller, chain_id, oracle_asset_id, transfer_gas, fee_rate) ==
    LET op == "add_foreign_chain"
        args == <<chain_id, oracle_asset_id, transfer_gas, fee_rate>>
    IN
    IF ~assert_owner(caller)
    THEN Panic(op, caller, args, ErrOwner, None)
    ELSE /\ foreign_chains' =
              [c \in DOMAIN foreign_chains \cup {chain_id} |->
                  IF c # chain_id THEN foreign_chains[c]
                  ELSE [next_paymaster |-> 0,
                        oracle_asset_id |-> oracle_asset_id,
                        transfer_gas |-> transfer_gas,
                        fee_rate |-> fee_rate,
                        paymasters |-> IF c \in DOMAIN foreign_chains
                                       THEN foreign_chains[c].paymasters ELSE <<>>]]
         /\ Return(op, caller, args, None, previous(chain_id))
         /\ ChainFrame

add_foreign_chain(caller, chain_id, oracle_asset_id, transfer_gas, fee_rate) ==
    LET op == "add_foreign_chain"
        args == <<chain_id, oracle_asset_id, transfer_gas, fee_rate>>
        config == [next_paymaster |-> 0,
                   oracle_asset_id |-> oracle_asset_id,
                   transfer_gas |-> transfer_gas,
                   fee_rate |-> fee_rate,
                   paymasters |-> <<>>]
    IN
    IF ~assert_owner(caller)
    THEN Panic(op, caller, args, ErrOwner, None)
    ELSE /\ foreign_chains' = [c \in DOMAIN foreign_chains \cup {chain_id} |->
                                  IF c = chain_id THEN config ELSE foreign_chains[c]]
         /\ Return(op, caller, args, None, previous(chain_id))
         /\ ChainFrame

set_foreign_chain_oracle_asset_id(caller, chain_id, oracle_asset_id) ==
    LET op == "set_foreign_chain_oracle_asset_id"
        args == <<chain_id, oracle_asset_id>>
    IN
    IF ~assert_owner(caller) THEN Panic(op, caller, args, ErrOwner, None)
    ELSE IF chain_id \notin DOMAIN foreign_chains THEN Panic(op, caller, args, ErrNoChain, None)
    ELSE /\ foreign_chains' = [foreign_chains EXCEPT ![chain_id].oracle_asset_id = oracle_asset_id]
         /\ Return(op, caller, args, None, None)
         /\ ChainFrame

\* set_foreign_chain_transfer_gas that creates a default entry for a chain
\* the registry does not hold
set_foreign_chain_transfer_gas_or_default(caller, chain_id, transfer_gas) ==
    LET op == "set_foreign_chain_transfer_gas"
        args == <<chain_id, transfer_gas>>
        default == [next_paymaster |-> 0,
                    oracle_asset_id |-> "",
                    transfer_gas |-> transfer_gas,
                    fee_rate |-> <<1, 1>>,
                    paymasters |-> <<>>]
    IN
    IF ~assert_owner(caller) THEN Panic(op, caller, args, ErrOwner, None)
    ELSE /\ foreign_chains' =
              [c \in DOMAIN foreign_chains \cup {chain_id} |->
                  IF c # chain_id THEN foreign_chains[c]
                  ELSE IF c \in DOMAIN foreign_chains
                       THEN [foreign_chains[c] EXCEPT !.transfer_gas = transfer_gas]
                       ELSE default]
         /\ Return(op, caller, args, None, None)
         /\ ChainFrame

set_foreign_chain_transfer_gas(caller, chain_id, transfer_gas) ==
    LET op == "set_foreign_chain_transfer_gas"
        args == <<chain_id, transfer_gas>>
    IN
    IF ~assert_owner(caller) THEN Panic(op, caller, args, ErrOwner, None)
    ELSE IF chain_id \notin DOMAIN foreign_chains THEN Panic(op, caller, args, ErrNoChain, None)
    ELSE /\ foreign_chains' = [foreign_chains EXCEPT ![chain_id].transfer_gas = transfer_gas]
         /\ Return(op, caller, args, None, None)
         /\ ChainFrame

\* remove_foreign_chain that clears the pool and keeps the chain's entry
remove_foreign_chain_keeps_entry(caller, chain_id) ==
    LET op == "remove_foreign_chain"
        pre == previous(chain_id)
    IN
    IF ~assert_owner(caller) THEN Panic(op, caller, <<chain_id>>, ErrOwner, None)
    ELSE /\ foreign_chains' =
              [c \in DOMAIN foreign_chains |->
                  IF c = chain_id THEN [foreign_chains[c] EXCEPT !.paymasters = <<>>]
                  ELSE foreign_chains[c]]
         /\ Return(op, caller, <<chain_id>>, None, pre)
         /\ ChainFrame

\* remove_entry, then clear() of the removed configuration's paymaster vector;
\* a missing chain is not an error.
remove_foreign_chain(caller, chain_id) ==
    LET op == "remove_foreign_chain"
        pre == previous(chain_id)
    IN
    IF ~assert_owner(caller) THEN Panic(op, caller, <<chain_id>>, ErrOwner, None)
    ELSE /\ foreign_chains' = [c \in DOMAIN foreign_chains \ {chain_id} |-> foreign_chains[c]]
         /\ Return(op, caller, <<chain_id>>, None, pre)
         /\ ChainFrame

get_foreign_chains(caller) ==
    /\ Return("get_foreign_chains", caller, <<>>,
              Some({[chain_id |-> c, oracle_asset_id |-> foreign_chains[c].oracle_asset_id] :
                       c \in DOMAIN foreign_chains}),
              None)
    /\ UNCHANGED <<contract, promises, transfers>>

----
\* Paymaster pool

\* Pool entries the model lets one chain hold
MaxPaymasters == 3

\* The model's cursor counter wraps at CursorWrap where the u32 wraps at 2^32
CursorWrap == 4

LowerAlnum == {"a", "b", "c", "d", "e", "f", "g", "h", "i", "j", "k", "l", "m", "n", "o",
               "p", "q", "r", "s", "t", "u", "v", "w", "x", "y", "z",
               "0", "1", "2", "3", "4", "5", "6", "7", "8", "9"}

Separators == {"-", "_", "."}

\* AccountId::from_str(&key_path).is_ok(), the key path given as its characters
is_valid_account_id(s) ==
    /\ Len(s) >= 2
    /\ Len(s) <= 64
    /\ \A i \in 1..Len(s) : s[i] \in LowerAlnum \cup Separators
    /\ s[1] \notin Separators
    /\ s[Len(s)] \notin Separators
    /\ \A i \in 1..(Len(s) - 1) : ~(s[i] \in Separators /\ s[i + 1] \in Separators)

\* add_paymaster without the key path requirement
add_paymaster_unchecked(caller, chain_id, nonce, key_path) ==
    LET op == "add_paymaster"
        args == <<chain_id, nonce, key_path>>
    IN
    IF ~assert_owner(caller) THEN Panic(op, caller, args, ErrOwner, None)
    ELSE IF chain_id \notin DOMAIN foreign_chains THEN Panic(op, caller, args, ErrNoChain, None)
    ELSE LET index == Len(foreign_chains[chain_id].paymasters) IN
         /\ index < MaxPaymasters
         /\ foreign_chains' =
              [foreign_chains EXCEPT ![chain_id].paymasters =
                  Append(@, [nonce |-> nonce, key_path |-> key_path])]
         /\ Return(op, caller, args, Some(index), None)
         /\ ChainFrame

\* add_paymaster that puts the new entry at the front of the pool
add_paymaster_in_front(caller, chain_id, nonce, key_path) ==
    LET op == "add_paymaster"
        args == <<chain_id, nonce, key_path>>
    IN
    IF ~assert_owner(caller) THEN Panic(op, caller, args, ErrOwner, None)
    ELSE IF is_valid_account_id(key_path) THEN Panic(op, caller, args, ErrKeyPath, None)
    ELSE IF chain_id \notin DOMAIN foreign_chains THEN Panic(op, caller, args, ErrNoChain, None)
    ELSE LET index == Len(foreign_chains[chain_id].paymasters) IN
         /\ index < MaxPaymasters
         /\ foreign_chains' =
              [foreign_chains EXCEPT ![chain_id].paymasters =
                  <<[nonce |-> nonce, key_path |-> key_path]>> \o @]
         /\ Return(op, caller, args, Some(index), None)
         /\ ChainFrame

add_paymaster(caller, chain_id, nonce, key_path) ==
    LET op == "add_paymaster"
        args == <<chain_id, nonce, key_path>>
    IN
    IF ~assert_owner(caller) THEN Panic(op, caller, args, ErrOwner, None)
    ELSE IF is_valid_account_id(key_path) THEN Panic(op, caller, args, ErrKeyPath, None)
    ELSE IF chain_id \notin DOMAIN foreign_chains THEN Panic(op, caller, args, ErrNoChain, None)
    ELSE LET index == Len(foreign_chains[chain_id].paymasters) IN
         /\ index < MaxPaymasters
         /\ foreign_chains' =
              [foreign_chains EXCEPT ![chain_id].paymasters =
                  Append(@, [nonce |-> nonce, key_path |-> key_path])]
         /\ Return(op, caller, args, Some(index), None)
         /\ ChainFrame

\* index is zero-based, as in the code; sequences here start at 1.
set_paymaster_nonce(caller, chain_id, index, nonce) ==
    LET op == "set_paymaster_nonce"
        args == <<chain_id, index, nonce>>
    IN
    IF ~assert_owner(caller) THEN Panic(op, caller, args, ErrOwner, None)
    ELSE IF chain_id \notin DOMAIN foreign_chains THEN Panic(op, caller, args, ErrNoChain, None)
    ELSE IF ~(index < Len(foreign_chains[chain_id].paymasters))
         THEN Panic(op, caller, args, ErrIndex, None)
    ELSE /\ foreign_chains' =
              [foreign_chains EXCEPT ![chain_id].paymasters[index + 1].nonce = nonce]
         /\ Return(op, caller, args, None, None)
         /\ ChainFrame

\* Vec::remove(index): the later elements shift down
swap_remove_shifts(v, index) ==
    [j \in 1..(Len(v) - 1) |-> IF j < index + 1 THEN v[j] ELSE v[j + 1]]

\* Vector::swap_remove(index): the last element takes the removed one's place.
swap_remove(v, index) ==
    [j \in 1..(Len(v) - 1) |-> IF j = index + 1 THEN v[Len(v)] ELSE v[j]]

\* remove_paymaster that also resets the round-robin cursor
remove_paymaster_resets_cursor(caller, chain_id, index) ==
    LET op == "remove_paymaster"
        args == <<chain_id, index>>
    IN
    IF ~assert_owner(caller) THEN Panic(op, caller, args, ErrOwner, None)
    ELSE IF chain_id \notin DOMAIN foreign_chains THEN Panic(op, caller, args, ErrNoChain, None)
    ELSE IF index < Len(foreign_chains[chain_id].paymasters)
         THEN /\ foreign_chains' =
                   [foreign_chains EXCEPT ![chain_id].paymasters = swap_remove(@, index),
                                          ![chain_id].next_paymaster = 0]
              /\ Return(op, caller, args, None, None)
              /\ ChainFrame
         ELSE Panic(op, caller, args, ErrIndex, None)

remove_paymaster(caller, chain_id, index) ==
    LET op == "remove_paymaster"
        args == <<chain_id, index>>
    IN
    IF ~assert_owner(caller) THEN Panic(op, caller, args, ErrOwner, None)
    ELSE IF chain_id \notin DOMAIN foreign_chains THEN Panic(op, caller, args, ErrNoChain, None)
    ELSE IF index < Len(foreign_chains[chain_id].paymasters)
         THEN /\ foreign_chains' =
                   [foreign_chains EXCEPT ![chain_id].paymasters = swap_remove(@, index)]
              /\ Return(op, caller, args, None, None)
              /\ ChainFrame
         ELSE Panic(op, caller, args, ErrIndex, None)

get_paymasters(caller, chain_id) ==
    LET op == "get_paymasters" IN
    IF chain_id \notin DOMAIN foreign_chains
    THEN Panic(op, caller, <<chain_id>>, ErrNoChain, None)
    ELSE /\ Return(op, caller, <<chain_id>>, Some(foreign_chains[chain_id].paymasters), None)
         /\ UNCHANGED <<contract, promises, transfers>>

\* Round-robin selection of the relay path (ChainConfiguration::next_paymaster):
\* the paymaster at next_paymaster mod len, then the cursor advances by one,
\* wrapping with the counter type.
next_paymaster(chain_id) ==
    LET op == "next_paymaster"
        chain == foreign_chains[chain_id]
        len == Len(chain.paymasters)
        index == chain.next_paymaster % len
    IN
    /\ chain_id \in DOMAIN foreign_chains
    /\ IF len = 0
       THEN /\ Return(op, current_account_id, <<chain_id>>, None, None)
            /\ UNCHANGED <<contract, promises, transfers>>
       ELSE /\ foreign_chains' =
                 [foreign_chains EXCEPT ![chain_id].next_paymaster = (@ + 1) % CursorWrap]
            /\ Return(op, current_account_id, <<chain_id>>,
                      Some([index |-> index, paymaster |-> chain.paymasters[index + 1]]),
                      Some(chain.next_paymaster))
            /\ ChainFrame

----
\* Pending transaction sequence index

Digits == <<"0", "1", "2", "3", "4", "5", "6", "7", "8", "9">>

RECURSIVE to_string(_)
\* u64::to_string: the decimal text of id
to_string(id) ==
    IF id < 10 THEN Digits[id + 1]
    ELSE to_string(id \div 10) \o Digits[(id % 10) + 1]

RECURSIVE insert_by_id(_, _)
\* e placed into the id-sorted sequence v, after the entries with an id <= e.id
insert_by_id(v, e) ==
    IF v = <<>> THEN <<e>>
    ELSE IF e.id < Head(v).id THEN <<e>> \o v
    ELSE <<Head(v)>> \o insert_by_id(Tail(v), e)

\* the sort left out: the entries stay in storage order
sort_skipped(v) == v

RECURSIVE sort_by_cached_key(_)
\* v.sort_by_cached_key(|&(id, _)| *id): stable, ascending by id
sort_by_cached_key(v) ==
    IF v = <<>> THEN <<>>
    ELSE insert_by_id(sort_by_cached_key(SubSeq(v, 1, Len(v) - 1)), v[Len(v)])

\* Iterator::skip(n)
skip(v, n) == SubSeq(v, n + 1, Len(v))

\* Iterator::take(n)
take(v, n) == SubSeq(v, 1, IF n < Len(v) THEN n ELSE Len(v))

\* offset.map_or(0, ..), limit.map_or(usize::MAX, ..): usize::MAX exceeds every length
list_transactions_result(entries, offset, limit) ==
    LET v == sort_by_cached_key(entries)
        skipped == skip(v, IF offset = None THEN 0 ELSE offset[1])
        taken == take(skipped, IF limit = None THEN Len(skipped) ELSE limit[1])
        keys == {to_string(taken[i].id) : i \in 1..Len(taken)}
    IN [k \in keys |-> taken[CHOOSE i \in 1..Len(taken) : to_string(taken[i].id) = k].tx]

list_transactions(caller, offset, limit) ==
    /\ Return("list_transactions", caller, <<offset, limit>>,
              Some(list_transactions_result(pending_transaction_sequences, offset, limit)),
              None)
    /\ UNCHANGED <<contract, promises, transfers>>

----
\* Fee ledger

\* saturating_sub in place of checked_sub
checked_sub_saturating(a, b) == Some(IF b > a THEN 0 ELSE a - b)

\* checked_sub that also refuses to reach zero
checked_sub_strict(a, b) == IF b >= a THEN None ELSE Some(a - b)

\* u128::checked_sub
checked_sub(a, b) == IF b > a THEN None ELSE Some(a - b)

\* withdraw_collected_fees that hands the amount out and keeps the balance
withdraw_collected_fees_keeps_balance(caller, deposit, asset_id, amount, receiver_id) ==
    LET op == "withdraw_collected_fees"
        args == <<deposit, asset_id, amount, receiver_id>>
        pre == Some(collected_fees)
    IN
    IF ~assert_one_yocto(deposit) THEN Panic(op, caller, args, ErrOneYocto, pre)
    ELSE IF ~assert_owner(caller) THEN Panic(op, caller, args, ErrOwner, pre)
    ELSE IF asset_id \notin DOMAIN collected_fees THEN Panic(op, caller, args, ErrNoFee, pre)
    ELSE LET fees == collected_fees[asset_id]
             amt == IF amount = None THEN fees ELSE amount[1]
             receiver == IF receiver_id = None THEN owner[1] ELSE receiver_id[1]
         IN
         IF checked_sub(fees, amt) = None THEN Panic(op, caller, args, ErrFees, pre)
         ELSE /\ transfers' = [transfers EXCEPT ![asset_id] = @ + amt]
              /\ Return(op, caller, args,
                        Some([asset_id |-> asset_id, receiver_id |-> receiver, amount |-> amt]),
                        pre)
              /\ UNCHANGED <<contract, promises>>

withdraw_collected_fees(caller, deposit, asset_id, amount, receiver_id) ==
    LET op == "withdraw_collected_fees"
        args == <<deposit, asset_id, amount, receiver_id>>
        pre == Some(collected_fees)
    IN
    IF ~assert_one_yocto(deposit) THEN Panic(op, caller, args, ErrOneYocto, pre)
    ELSE IF ~assert_owner(caller) THEN Panic(op, caller, args, ErrOwner, pre)
    ELSE IF asset_id \notin DOMAIN collected_fees THEN Panic(op, caller, args, ErrNoFee, pre)
    ELSE LET fees == collected_fees[asset_id]
             amt == IF amount = None THEN fees ELSE amount[1]
             left == checked_sub(fees, amt)
             receiver == IF receiver_id = None THEN owner[1] ELSE receiver_id[1]
         IN
         IF left = None THEN Panic(op, caller, args, ErrFees, pre)
         ELSE /\ collected_fees' = [collected_fees EXCEPT ![asset_id] = left[1]]
              /\ transfers' = [transfers EXCEPT ![asset_id] = @ + amt]
              /\ Return(op, caller, args,
                        Some([asset_id |-> asset_id, receiver_id |-> receiver, amount |-> amt]),
                        pre)
              /\ UNCHANGED <<owner, expire_sequence_after_ns, signer_contract_id,
                             signer_contract_public_key, flags, receiver_whitelist,
                             sender_whitelist, foreign_chains, pending_transaction_sequences,
                             promises>>

----
\* Gas cost estimate

\* Contract.oracle_local_asset_id: the oracle's id of the home asset
oracle_local_asset_id == "near-usd"

ErrInvalidTx == "Invalid transaction request: decode error"

\* format!("Paymaster not supported for chain id {}", chain_id)
ErrUnsupported(chain_id) == "Paymaster not supported for chain id " \o to_string(chain_id)

\* (transaction.gas() + paymaster_transaction_gas) * transaction.gas_price()
request_tokens_for_gas(transaction, chain) ==
    (transaction.gas + chain.transfer_gas) * transaction.gas_price

\* ChainConfiguration::foreign_token_price: the foreign amount priced in the
\* home asset at the oracle's quotes of the two assets and scaled by the
\* chain's fee rate.  The quotient is whole here; round_up tells which way an
\* inexact one goes.
foreign_token_price(chain, local_asset_id, price_data, foreign_tokens, round_up) ==
    LET numerator == foreign_tokens * price_data[chain.oracle_asset_id] * chain.fee_rate[1]
        denominator == price_data[local_asset_id] * chain.fee_rate[2]
        quotient == numerator \div denominator
    IN IF round_up /\ numerator % denominator # 0 THEN quotient + 1 ELSE quotient

\* estimate_gas_cost that leaves the paymaster's transfer gas out of the sum
estimate_gas_cost_without_transfer_gas(caller, decoded, price_data) ==
    LET op == "estimate_gas_cost"
        args == <<decoded, price_data>>
        transaction == decoded[2]
    IN
    IF decoded[1] = "Err" THEN Panic(op, caller, args, ErrInvalidTx, None)
    ELSE IF transaction.chain_id \notin DOMAIN foreign_chains
         THEN Panic(op, caller, args, ErrUnsupported(transaction.chain_id), None)
    ELSE LET chain == foreign_chains[transaction.chain_id] IN
         /\ \E round_up \in BOOLEAN :
               Return(op, caller, args,
                      Some(foreign_token_price(chain, oracle_local_asset_id, price_data,
                                               transaction.gas * transaction.gas_price,
                                               round_up)),
                      None)
         /\ UNCHANGED <<contract, promises, transfers>>

\* decoded is what ValidTransactionRequest::try_from(decode_transaction_request(..))
\* gave for transaction_rlp_hex: Ok with the request, or Err.
estimate_gas_cost(caller, decoded, price_data) ==
    LET op == "estimate_gas_cost"
        args == <<decoded, price_data>>
        transaction == decoded[2]
    IN
    IF decoded[1] = "Err" THEN Panic(op, caller, args, ErrInvalidTx, None)
    ELSE IF transaction.chain_id \notin DOMAIN foreign_chains
         THEN Panic(op, caller, args, ErrUnsupported(transaction.chain_id), None)
    ELSE LET chain == foreign_chains[transaction.chain_id] IN
         /\ \E round_up \in BOOLEAN :
               Return(op, caller, args,
                      Some(foreign_token_price(chain, oracle_local_asset_id, price_data,
                                               request_tokens_for_gas(transaction, chain),
                                               round_up)),
                      None)
         /\ UNCHANGED <<contract, promises, transfers>>

----
\* Initial states

ForeignAddresses == {"0xaa", "0xbb"}
SenderIds == {"alice.near", "bob.near"}
ChainIds == {56, 137}
Nonces == {0, 1}
AssetIds == {"native", "usdt.near"}
FlagValues == {[is_sender_whitelist_enabled |-> FALSE, is_receiver_whitelist_enabled |-> FALSE],
               [is_sender_whitelist_enabled |-> TRUE, is_receiver_whitelist_enabled |-> TRUE]}

\* The state after construction, with the fee ledger and the pending sequences
\* as the relay path (not part of this file) has left them.
InitWith(fees, sequences) ==
    /\ owner = Some(OwnerId)
    /\ expire_sequence_after_ns = 300
    /\ signer_contract_id = "signer-a.near"
    /\ signer_contract_public_key = None
    /\ flags = [is_sender_whitelist_enabled |-> FALSE, is_receiver_whitelist_enabled |-> FALSE]
    /\ receiver_whitelist = {}
    /\ sender_whitelist = {}
    /\ foreign_chains = [c \in {} |-> None]
    /\ collected_fees = fees
    /\ pending_transaction_sequences = sequences
    /\ promises = <<>>
    /\ transfers = [a \in AssetIds |-> 0]
    /\ last = Call("new", OwnerId, <<>>, OK, None, None)

\* The fee ledger the administrative specification starts from
AdminFees == [a \in {"native"} |-> 2]

Init == InitWith(AdminFees, <<>>)

----
\* The administrative surface: every mutating method, called by the owner and
\* by another account, each with one argument value.  Here the owner issues a
\* refresh only when none is in flight and adds a paymaster only to an empty
\* pool; SpecSigner and SpecPaymaster below lift both restrictions.

AdminFlags == [is_sender_whitelist_enabled |-> TRUE, is_receiver_whitelist_enabled |-> TRUE]

PoolIsEmpty(chain_id) ==
    chain_id \in DOMAIN foreign_chains => foreign_chains[chain_id].paymasters = <<>>

\* The runtime delivers the result of an in-flight public_key() call.
deliver_public_key ==
    \E i \in 1..Len(promises), r \in {"Ok", "Err"} :
        refresh_signer_public_key_callback(
            i, IF r = "Ok" THEN <<"Ok", PublicKeyOf(promises[i])>>
                           ELSE <<"Err", <<"PromiseError">>>>)

Next ==
    \/ \E caller \in Callers : set_expire_sequence_after_ns(caller, 600)
    \/ \E caller \in Callers : set_flags(caller, AdminFlags)
    \/ \E caller \in Callers, id \in SignerIds : set_signer_contract_id(caller, id)
    \/ \E caller \in Callers : promises = <<>> /\ refresh_signer_public_key(caller)
    \/ deliver_public_key
    \/ refresh_signer_public_key_callback_external(Mallory, <<"Ok", PublicKeyOf("signer-b.near")>>)
    \/ get_foreign_address_for(Mallory, "alice.near")
    \/ \E caller \in Callers : add_to_receiver_whitelist(caller, <<"0xaa">>)
    \/ \E caller \in Callers : remove_from_receiver_whitelist(caller, <<"0xaa">>)
    \/ \E caller \in Callers : clear_receiver_whitelist(caller)
    \/ \E caller \in Callers : add_to_sender_whitelist(caller, <<"alice.near">>)
    \/ \E caller \in Callers : remove_from_sender_whitelist(caller, <<"alice.near">>)
    \/ \E caller \in Callers : clear_sender_whitelist(caller)
    \/ \E caller \in Callers : add_foreign_chain(caller, 56, "bnb-usd", 21000, <<1, 1>>)
    \/ \E caller \in Callers : set_foreign_chain_oracle_asset_id(caller, 56, "eth-usd")
    \/ \E caller \in Callers : set_foreign_chain_transfer_gas(caller, 56, 50000)
    \/ \E caller \in Callers : remove_foreign_chain(caller, 56)
    \/ \E caller \in Callers : PoolIsEmpty(56) /\ add_paymaster(caller, 56, 0, <<"0">>)
    \/ \E caller \in Callers : set_paymaster_nonce(caller, 56, 0, 1)
    \/ \E caller \in Callers : remove_paymaster(caller, 56, 0)
    \/ \E caller \in Callers, deposit \in {0, 1}, amount \in {None, Some(3)} :
          withdraw_collected_fees(caller, deposit, "native", amount, None)

Spec == Init /\ [][Next]_vars

----
\* Signer key reconciliation with refreshes in flight, interleaved with other
\* operations

SignerNext ==
    \/ \E caller \in Callers, id \in SignerIds : set_signer_contract_id(caller, id)
    \/ \E caller \in Callers : refresh_signer_public_key(caller)
    \/ deliver_public_key
    \/ \E caller \in Callers, id \in SignerIds :
          refresh_signer_public_key_callback_external(caller, <<"Ok", PublicKeyOf(id)>>)
    \/ \E caller \in Callers, account_id \in SenderIds :
          get_foreign_address_for(caller, account_id)
    \/ \E caller \in Callers, f \in FlagValues : set_flags(caller, f)
    \/ \E caller \in Callers : add_to_sender_whitelist(caller, <<"alice.near">>)
    \/ \E caller \in Callers : clear_sender_whitelist(caller)

SpecSigner == Init /\ [][SignerNext]_vars

----
\* The whitelists, with address lists of up to MaxAddresses entries

MaxAddresses == 2

SeqsUpTo(S, n) == UNION {[1..k -> S] : k \in 0..n}

WhitelistNext ==
    \/ \E caller \in Callers, addresses \in SeqsUpTo(ForeignAddresses, MaxAddresses) :
          add_to_receiver_whitelist(caller, addresses)
    \/ \E caller \in Callers, addresses \in SeqsUpTo(ForeignAddresses, MaxAddresses) :
          remove_from_receiver_whitelist(caller, addresses)
    \/ \E caller \in Callers : clear_receiver_whitelist(caller)
    \/ \E caller \in Callers, addresses \in SeqsUpTo(SenderIds, MaxAddresses) :
          add_to_sender_whitelist(caller, addresses)
    \/ \E caller \in Callers, addresses \in SeqsUpTo(SenderIds, MaxAddresses) :
          remove_from_sender_whitelist(caller, addresses)
    \/ \E caller \in Callers : clear_sender_whitelist(caller)

SpecWhitelist == Init /\ [][WhitelistNext]_vars

----
\* The paymaster pools of two chains, with the relay path's selections on
\* chain 56.  Chain 56 takes every argument; chain 137 is the bystander and
\* takes one.

PaymasterNext ==
    \/ \E chain_id \in ChainIds : add_foreign_chain(OwnerId, chain_id, "bnb-usd", 21000, <<1, 1>>)
    \/ \E chain_id \in ChainIds : remove_foreign_chain(OwnerId, chain_id)
    \/ \E nonce \in Nonces, key_path \in {<<"0">>, <<"p", "m">>, <<"a", ".", "b">>} :
          add_paymaster(OwnerId, 56, nonce, key_path)
    \/ add_paymaster(OwnerId, 137, 0, <<"$", "1">>)
    \/ \E index \in 0..MaxPaymasters, nonce \in Nonces :
          set_paymaster_nonce(OwnerId, 56, index, nonce)
    \/ \E index \in 0..MaxPaymasters : remove_paymaster(OwnerId, 56, index)
    \/ remove_paymaster(OwnerId, 137, 0)
    \/ \E chain_id \in ChainIds : get_paymasters(Mallory, chain_id)
    \/ next_paymaster(56)

SpecPaymaster == Init /\ [][PaymasterNext]_vars

----
\* The chain registry: chain 56 takes every configuration, setter, pool
\* operation and estimate; chain 137 is the bystander, added and removed with
\* one configuration; chain 1 is never registered.  Pools here hold one kind
\* of paymaster, so they differ in length only.

OracleAssetIds == {"bnb-usd", "eth-usd"}
TransferGas == {21000, 50000}
FeeRates == {<<1, 1>>, <<11, 10>>}
GasLimits == {21000, 50000}
GasPrices == {1, 2}

\* Every quote 1, and quotes that do not divide evenly
PriceData ==
    {[a \in OracleAssetIds \cup {oracle_local_asset_id} |-> 1],
     [a \in OracleAssetIds \cup {oracle_local_asset_id} |->
         IF a = "bnb-usd" THEN 3 ELSE IF a = "eth-usd" THEN 5 ELSE 2]}

Decoded ==
    {<<"Ok", [chain_id |-> c, gas |-> g, gas_price |-> p]>> :
        c \in ChainIds \cup {1}, g \in GasLimits, p \in GasPrices}
    \cup {<<"Err", <<"decode error">>>>}

\* The chain ids the pool operations are tried on: 56 and the unregistered 1
Tried == {56, 1}

RegistryNext ==
    \/ \E oracle_asset_id \in OracleAssetIds, transfer_gas \in TransferGas,
          fee_rate \in FeeRates :
          add_foreign_chain(OwnerId, 56, oracle_asset_id, transfer_gas, fee_rate)
    \/ add_foreign_chain(OwnerId, 137, "eth-usd", 21000, <<1, 1>>)
    \/ \E chain_id \in Tried, oracle_asset_id \in OracleAssetIds :
          set_foreign_chain_oracle_asset_id(OwnerId, chain_id, oracle_asset_id)
    \/ \E chain_id \in Tried, transfer_gas \in TransferGas :
          set_foreign_chain_transfer_gas(OwnerId, chain_id, transfer_gas)
    \/ \E chain_id \in ChainIds : remove_foreign_chain(OwnerId, chain_id)
    \/ get_foreign_chains(Mallory)
    \/ \E chain_id \in Tried : add_paymaster(OwnerId, chain_id, 0, <<"0">>)
    \/ \E chain_id \in Tried, index \in 0..MaxPaymasters :
          set_paymaster_nonce(OwnerId, chain_id, index, 0)
    \/ \E chain_id \in Tried, index \in 0..MaxPaymasters :
          remove_paymaster(OwnerId, chain_id, index)
    \/ \E chain_id \in Tried : get_paymasters(Mallory, chain_id)
    \/ next_paymaster(56)
    \/ \E amount \in {None, Some(1)} :
          withdraw_collected_fees(OwnerId, 1, "usdt.near", amount, None)
    \/ \E decoded \in Decoded, price_data \in PriceData :
          estimate_gas_cost(Mallory, decoded, price_data)

SpecRegistry == Init /\ [][RegistryNext]_vars

----
\* The fee ledger, from every ledger of up to MaxFee units per asset

MaxFee == 2

Receivers == {None, Some("treasury.near")}

\* Attached deposits, in yoctoNEAR: none, exactly one, more than one
Deposits == {0, 1, 2}

InitFees ==
    \E S \in SUBSET AssetIds : \E fees \in [S -> 0..MaxFee] : InitWith(fees, <<>>)

FeesNext ==
    \E caller \in Callers, deposit \in Deposits, asset_id \in AssetIds,
       amount \in {None} \cup {Some(n) : n \in 0..(MaxFee + 1)}, receiver_id \in Receivers :
        withdraw_collected_fees(caller, deposit, asset_id, amount, receiver_id)

SpecFees == InitFees /\ [][FeesNext]_vars

----
\* The pending sequence index, from every storage order of every set of ids

TxIds == {1, 3, 5, 7, 10}

\* Page arguments run up to MaxPage
MaxPage == 5

Entry(id) == [id |-> id, tx |-> <<"PendingTransactionSequence", id>>]

\* The sequences over S without repetition
Orders(S) == {v \in [1..Cardinality(S) -> S] : \A i, j \in 1..Cardinality(S) : i # j => v[i] # v[j]}

InitList ==
    \E S \in SUBSET TxIds : \E order \in Orders(S) :
        InitWith(AdminFees, [i \in 1..Len(order) |-> Entry(order[i])])

PageArgs == {None} \cup {Some(n) : n \in 0..MaxPage}

ListNext ==
    \E offset \in PageArgs, limit \in PageArgs : list_transactions(Mallory, offset, limit)

SpecList == InitList /\ [][ListNext]_vars

----
\* Properties

Withdraw == "withdraw_collected_fees"

MutatingOps ==
    {"set_expire_sequence_after_ns", "set_signer_contract_id", "refresh_signer_public_key",
     "set_flags", "add_to_receiver_whitelist", "remove_from_receiver_whitelist",
     "clear_receiver_whitelist", "add_to_sender_whitelist", "remove_from_sender_whitelist",
     "clear_sender_whitelist", "add_foreign_chain", "set_foreign_chain_oracle_asset_id",
     "set_foreign_chain_transfer_gas", "remove_foreign_chain", "add_paymaster",
     "set_paymaster_nonce", "remove_paymaster", Withdraw}

\* The step is a call of a mutating method by an account that is not the owner.
NonOwnerCall == last'.op \in MutatingOps /\ owner # Some(last'.caller)

\* The call changed nothing and scheduled neither a remote call nor a transfer.
NoEffect == last'.out = None /\ UNCHANGED <<contract, promises, transfers>>

\* C1 as stated: every mutating method called by a non-owner fails with the
\* permission error, leaves the whole contract state unchanged and issues no
\* remote call or transfer.
C1_NonOwnerDenied ==
    [][NonOwnerCall => (last'.err = ErrOwner /\ NoEffect)]_vars

\* C1 amended: a non-owner's call of a mutating method fails, changes nothing
\* and issues no remote call or transfer; the error is the permission error,
\* except for withdraw_collected_fees called without exactly one yoctoNEAR
\* attached, which fails with the deposit error before the owner check runs.
C1_NonOwnerFails ==
    [][NonOwnerCall =>
          /\ last'.err = IF last'.op = Withdraw /\ ~assert_one_yocto(last'.args[1])
                         THEN ErrOneYocto ELSE ErrOwner
          /\ NoEffect]_vars

\* A non-owner's withdrawal without the deposit failed on the deposit check,
\* with fees on the ledger.
C1_Witness ==
    /\ last.op = Withdraw
    /\ last.caller = Mallory
    /\ last.args[1] = 0
    /\ last.err = ErrOneYocto
    /\ collected_fees["native"] = 2

\* C2: withdraw_collected_fees with an amount strictly greater than the
\* recorded balance of the asset never succeeds: the call fails, every balance
\* is unchanged and no transfer is handed out; when the deposit and owner
\* checks pass the error is the insufficient-funds one.  (The same call
\* repeated runs from the same state, so it fails the same way.)
C2_OverdrawFails ==
    [][(/\ last'.op = Withdraw
        /\ last'.args[2] \in DOMAIN collected_fees
        /\ last'.args[3] # None
        /\ last'.args[3][1] > collected_fees[last'.args[2]])
       => /\ last'.err # OK
          /\ NoEffect
          /\ (assert_one_yocto(last'.args[1]) /\ assert_owner(last'.caller))
                => last'.err = ErrFees]_vars

\* The owner asked for more than a positive balance and was refused.
C2_Witness ==
    /\ last.op = Withdraw
    /\ last.err = ErrFees
    /\ last.caller = OwnerId
    /\ last.args[2] \in DOMAIN collected_fees
    /\ collected_fees[last.args[2]] > 0
    /\ last.args[3][1] > collected_fees[last.args[2]]

\* The step is a withdrawal of asset_id by the owner with the deposit attached.
OwnerWithdraws(asset_id) ==
    /\ last'.op = Withdraw
    /\ assert_one_yocto(last'.args[1])
    /\ assert_owner(last'.caller)
    /\ last'.args[2] = asset_id

\* The call c withdrew the whole balance of its asset.
FullWithdrawal(c) ==
    /\ c.op = Withdraw
    /\ c.err = OK
    /\ c.out[1].amount = c.pre[1][c.args[2]]

\* A withdrawal of exactly the balance (amount unspecified or equal to it)
\* succeeds and leaves the asset's balance at zero.
FullWithdrawalEmpties ==
    \A a \in DOMAIN collected_fees :
        (OwnerWithdraws(a) /\ last'.args[3] \in {None, Some(collected_fees[a])})
        => (last'.err = OK /\ collected_fees'[a] = 0)

\* C3 as stated: a full withdrawal leaves the balance at zero, and the next
\* full-balance withdrawal of the same asset (amount unspecified, or the amount
\* just withdrawn) fails with insufficient funds.  Read in the claim's favour,
\* the first withdrawal took a positive balance.
C3_SecondFullWithdrawalFails ==
    [][/\ FullWithdrawalEmpties
       /\ (/\ FullWithdrawal(last)
           /\ last.out[1].amount > 0
           /\ OwnerWithdraws(last.args[2])
           /\ last'.args[3] \in {None, Some(last.out[1].amount)})
          => last'.err = ErrFees]_vars

\* C3 amended: a full withdrawal leaves the balance at zero; the next
\* withdrawal of the same asset fails with insufficient funds when it names a
\* positive amount, and succeeds, transferring zero and leaving the balance at
\* zero, when the amount is unspecified or zero.
C3_AfterFullWithdrawal ==
    [][/\ FullWithdrawalEmpties
       /\ (FullWithdrawal(last) /\ OwnerWithdraws(last.args[2]))
          => IF last'.args[3] # None /\ last'.args[3][1] > 0
             THEN last'.err = ErrFees /\ NoEffect
             ELSE /\ last'.err = OK
                  /\ last'.out[1].amount = 0
                  /\ collected_fees'[last.args[2]] = 0]_vars

\* After an earlier withdrawal emptied the asset, a withdrawal with the amount
\* unspecified succeeded and transferred zero.
C3_Witness ==
    /\ last.op = Withdraw
    /\ last.err = OK
    /\ last.args[3] = None
    /\ last.out[1].amount = 0
    /\ transfers[last.args[2]] > 0
    /\ collected_fees[last.args[2]] = 0

Callback == "refresh_signer_public_key_callback"

\* C4: after set_signer_contract_id to a different id the cached key is
\* absent; an absent key becomes present only in a refresh continuation that
\* the contract runs with a successful result; and while the key is absent
\* every get_foreign_address_for fails and returns no address.  The other
\* operations of SpecSigner interleave freely.
C4_StaleUntilRefreshed ==
    [][/\ (/\ last'.op = "set_signer_contract_id"
           /\ last'.err = OK
           /\ last'.args[1] # signer_contract_id)
          => (signer_contract_public_key' = None /\ signer_contract_id' = last'.args[1])
       /\ (signer_contract_public_key = None /\ signer_contract_public_key' # None)
          => /\ last'.op = Callback
             /\ last'.caller = current_account_id
             /\ last'.err = OK
             /\ last'.args[1][1] = "Ok"
       /\ (last'.op = "get_foreign_address_for" /\ signer_contract_public_key = None)
          => (last'.err # OK /\ last'.out = None)]_vars

\* The signer was changed, a refresh is in flight and an address request failed.
C4_Witness ==
    /\ last.op = "get_foreign_address_for"
    /\ last.err = ErrUnwrapNone
    /\ signer_contract_id = "signer-b.near"
    /\ signer_contract_public_key = None
    /\ promises = <<"signer-b.near">>

\* C5: a cached key that is present is the key of the currently configured
\* signer contract.
C5_KeyOfCurrentSigner ==
    signer_contract_public_key # None
        => signer_contract_public_key[1] = PublicKeyOf(signer_contract_id)

----
\* Whitelist properties

Range(v) == {v[i] : i \in 1..Len(v)}

\* The last two calls are a successful add of the single element list then a
\* successful remove of the same list, both of the methods named.
AddThenRemove(add, remove) ==
    /\ last.op = add
    /\ last.err = OK
    /\ Len(last.args[1]) = 1
    /\ last'.op = remove
    /\ last'.err = OK
    /\ last'.args = last.args

\* C6 as stated: for each whitelist, every element e and every prior content,
\* add([e]) followed by remove([e]) leaves the membership as it was before the
\* add.
C6_AddRemoveRestores ==
    [][/\ AddThenRemove("add_to_receiver_whitelist", "remove_from_receiver_whitelist")
          => receiver_whitelist' = last.pre[1]
       /\ AddThenRemove("add_to_sender_whitelist", "remove_from_sender_whitelist")
          => sender_whitelist' = last.pre[1]]_vars

\* C6 amended: add([e]) followed by remove([e]) leaves the membership as it
\* was before the add when e was not a member before; when e was already a
\* member the result is the prior content without e.
C6_AddRemoveRestoresAbsent ==
    [][/\ AddThenRemove("add_to_receiver_whitelist", "remove_from_receiver_whitelist")
          => /\ receiver_whitelist' = last.pre[1] \ {last.args[1][1]}
             /\ last.args[1][1] \notin last.pre[1] => receiver_whitelist' = last.pre[1]
       /\ AddThenRemove("add_to_sender_whitelist", "remove_from_sender_whitelist")
          => /\ sender_whitelist' = last.pre[1] \ {last.args[1][1]}
             /\ last.args[1][1] \notin last.pre[1] => sender_whitelist' = last.pre[1]]_vars

\* remove([e]) took e out of a receiver whitelist that keeps another member.
C6_Witness ==
    /\ last.op = "remove_from_receiver_whitelist"
    /\ last.err = OK
    /\ Len(last.args[1]) = 1
    /\ last.args[1][1] \in last.pre[1]
    /\ receiver_whitelist = last.pre[1] \ {last.args[1][1]}
    /\ receiver_whitelist # {}

\* The step is the owner's call of op with a list of addresses.
OwnerListCall(op) == last'.op = op /\ assert_owner(last'.caller)

\* Two successful calls of op in a row with the same list
Repeated(op) ==
    last.op = op /\ last.err = OK /\ last'.op = op /\ last'.err = OK /\ last'.args = last.args

\* C7: the owner's whitelist add and remove never fail; an add makes exactly
\* the listed addresses members and a remove makes exactly them non-members,
\* so adding members and removing non-members changes nothing; the same call
\* made twice leaves the state of the first; and neither touches the other
\* whitelist.
C7_WhitelistIdempotent ==
    [][/\ OwnerListCall("add_to_receiver_whitelist")
          => /\ last'.err = OK
             /\ receiver_whitelist' = receiver_whitelist \cup Range(last'.args[1])
             /\ Range(last'.args[1]) \subseteq receiver_whitelist
                   => receiver_whitelist' = receiver_whitelist
             /\ sender_whitelist' = sender_whitelist
       /\ OwnerListCall("remove_from_receiver_whitelist")
          => /\ last'.err = OK
             /\ receiver_whitelist' = receiver_whitelist \ Range(last'.args[1])
             /\ Range(last'.args[1]) \cap receiver_whitelist = {}
                   => receiver_whitelist' = receiver_whitelist
             /\ sender_whitelist' = sender_whitelist
       /\ OwnerListCall("add_to_sender_whitelist")
          => /\ last'.err = OK
             /\ sender_whitelist' = sender_whitelist \cup Range(last'.args[1])
             /\ Range(last'.args[1]) \subseteq sender_whitelist
                   => sender_whitelist' = sender_whitelist
             /\ receiver_whitelist' = receiver_whitelist
       /\ OwnerListCall("remove_from_sender_whitelist")
          => /\ last'.err = OK
             /\ sender_whitelist' = sender_whitelist \ Range(last'.args[1])
             /\ Range(last'.args[1]) \cap sender_whitelist = {}
                   => sender_whitelist' = sender_whitelist
             /\ receiver_whitelist' = receiver_whitelist
       /\ \A op \in {"add_to_receiver_whitelist", "remove_from_receiver_whitelist",
                     "add_to_sender_whitelist", "remove_from_sender_whitelist"} :
             Repeated(op) => (receiver_whitelist' = receiver_whitelist
                              /\ sender_whitelist' = sender_whitelist)]_vars

\* An add of addresses that were all members already succeeded, with the
\* sender whitelist populated.
C7_Witness ==
    /\ last.op = "add_to_receiver_whitelist"
    /\ last.err = OK
    /\ last.args[1] # <<>>
    /\ Range(last.args[1]) \subseteq last.pre[1]
    /\ receiver_whitelist = last.pre[1]
    /\ sender_whitelist # {}

----
\* Paymaster pool properties

\* How many entries of the pool v equal the paymaster p
Count(v, p) == Cardinality({j \in 1..Len(v) : v[j] = p})

\* C8: remove_paymaster(chain, i) with i below the pool length succeeds and
\* removes exactly the entry at i by swap-with-last: the pool is one shorter,
\* every other (nonce, key_path) pair is still in it as often as before, no
\* entry but the former last one (now at i) changed its index, and the chain's
\* other fields and the other chains are unchanged.
C8_SwapRemoveKeepsOthers ==
    [][(/\ last'.op = "remove_paymaster"
        /\ assert_owner(last'.caller)
        /\ last'.args[1] \in DOMAIN foreign_chains
        /\ last'.args[2] < Len(foreign_chains[last'.args[1]].paymasters))
       => LET c == last'.args[1]
              i == last'.args[2]
              old == foreign_chains[c].paymasters
              new == foreign_chains'[c].paymasters
          IN /\ last'.err = OK
             /\ Len(new) = Len(old) - 1
             /\ \A p \in Range(old) :
                   Count(new, p) = Count(old, p) - (IF p = old[i + 1] THEN 1 ELSE 0)
             /\ \A j \in 1..Len(new) : j # i + 1 => new[j] = old[j]
             /\ i + 1 <= Len(new) => new[i + 1] = old[Len(old)]
             /\ foreign_chains'[c] = [foreign_chains[c] EXCEPT !.paymasters = new]
             /\ DOMAIN foreign_chains' = DOMAIN foreign_chains
             /\ \A d \in DOMAIN foreign_chains \ {c} : foreign_chains'[d] = foreign_chains[d]]_vars

\* Index 0 was removed from a pool of three on chain 56: the former last entry
\* now stands first, before a different entry, and chain 137 has a paymaster.
C8_Witness ==
    /\ last.op = "remove_paymaster"
    /\ last.err = OK
    /\ last.args = <<56, 0>>
    /\ Len(foreign_chains[56].paymasters) = 2
    /\ foreign_chains[56].paymasters[1] # foreign_chains[56].paymasters[2]
    /\ 137 \in DOMAIN foreign_chains
    /\ foreign_chains[137].paymasters # <<>>

\* C9: a selection on a non-empty pool succeeds and returns the paymaster at
\* index cursor mod length, which is below the current length, and advances
\* the cursor by one, wrapping at the counter's maximum; add_paymaster and
\* remove_paymaster leave the cursor as it is.
C9_SelectionInRange ==
    [][/\ (/\ last'.op = "next_paymaster"
           /\ foreign_chains[last'.args[1]].paymasters # <<>>)
          => LET chain == foreign_chains[last'.args[1]]
                 len == Len(chain.paymasters)
                 selected == last'.out[1]
             IN /\ last'.err = OK
                /\ selected.index = chain.next_paymaster % len
                /\ selected.index < len
                /\ selected.paymaster = chain.paymasters[selected.index + 1]
                /\ foreign_chains'[last'.args[1]] =
                      [chain EXCEPT !.next_paymaster =
                          IF chain.next_paymaster = CursorWrap - 1 THEN 0
                          ELSE chain.next_paymaster + 1]
       /\ (last'.op \in {"add_paymaster", "remove_paymaster"} /\ last'.err = OK)
          => foreign_chains'[last'.args[1]].next_paymaster
                = foreign_chains[last'.args[1]].next_paymaster]_vars

\* A selection ran with the cursor at the counter's maximum and beyond the
\* length of a pool that removals had shrunk; the cursor wrapped to zero.
C9_Witness ==
    /\ last.op = "next_paymaster"
    /\ last.err = OK
    /\ last.out # None
    /\ last.pre = Some(CursorWrap - 1)
    /\ Len(foreign_chains[last.args[1]].paymasters) < CursorWrap - 1
    /\ foreign_chains[last.args[1]].next_paymaster = 0

----
\* Listing properties

\* The decimal text of the ids of TxIds
DecimalText == (1 :> "1") @@ (3 :> "3") @@ (5 :> "5") @@ (7 :> "7") @@ (10 :> "10")

PendingIds == {pending_transaction_sequences[i].id : i \in 1..Len(pending_transaction_sequences)}

\* The number of pending ids below id: its position, from 0, in ascending order
Position(id) == Cardinality({j \in PendingIds : j < id})

\* The ids at positions offset .. offset + limit - 1
Page(offset, limit) ==
    LET first == IF offset = None THEN 0 ELSE offset[1] IN
    {id \in PendingIds :
        /\ Position(id) >= first
        /\ limit # None => Position(id) < first + limit[1]}

\* C10: list_transactions(offset, limit) returns exactly the entries whose ids
\* stand at positions offset .. offset+limit-1 of the pending ids in ascending
\* order, each under the decimal text of its id; on ids 1,3,5,7 with offset 2
\* and limit 1 that is the entry of 5 alone, and an offset at or past the
\* number of entries gives the empty result.
C10_ListIsSortedPage ==
    last.op = "list_transactions" =>
        LET offset == last.args[1]
            limit == last.args[2]
            result == last.out[1]
        IN /\ last.err = OK
           /\ DOMAIN result = {DecimalText[id] : id \in Page(offset, limit)}
           /\ \A id \in Page(offset, limit) : result[DecimalText[id]] = Entry(id).tx
           /\ (PendingIds = {1, 3, 5, 7} /\ offset = Some(2) /\ limit = Some(1))
                 => DOMAIN result = {"5"}
           /\ (offset # None /\ offset[1] >= Cardinality(PendingIds))
                 => DOMAIN result = {}

\* The ids 1,3,5,7, stored out of order, were listed with offset 2 and limit 1
\* and the result holds the entry of 5 alone.
C10_Witness ==
    /\ last.op = "list_transactions"
    /\ PendingIds = {1, 3, 5, 7}
    /\ pending_transaction_sequences[1].id = 7
    /\ pending_transaction_sequences[2].id = 5
    /\ last.args = <<Some(2), Some(1)>>
    /\ DOMAIN last.out[1] = {"5"}

----
\* Registry properties

\* The call c succeeded as op on the chain chain_id.
Did(c, op, chain_id) == c.op = op /\ c.err = OK /\ c.args[1] = chain_id

\* C11: after remove_foreign_chain(c), whatever paymasters the chain held,
\* get_foreign_chains() has no entry for c and get_paymasters(c) fails as
\* unknown chain; when c is added again its pool is empty and get_paymasters(c)
\* returns the empty list.  Both readers report the registry as it is.
C11_RemovedChainInvisible ==
    [][/\ (last'.op = "remove_foreign_chain" /\ last'.err = OK)
          => last'.args[1] \notin DOMAIN foreign_chains'
       /\ last'.op = "get_foreign_chains"
          => {e.chain_id : e \in last'.out[1]} = DOMAIN foreign_chains
       /\ last'.op = "get_paymasters"
          => IF last'.args[1] \in DOMAIN foreign_chains
             THEN last'.out = Some(foreign_chains[last'.args[1]].paymasters)
             ELSE last'.err = ErrNoChain /\ last'.out = None
       /\ \A c \in ChainIds :
             Did(last, "remove_foreign_chain", c)
             => /\ last'.op = "get_foreign_chains"
                   => \A e \in last'.out[1] : e.chain_id # c
                /\ (last'.op = "get_paymasters" /\ last'.args[1] = c)
                   => last'.err = ErrNoChain
                /\ Did(last', "add_foreign_chain", c)
                   => foreign_chains'[c].paymasters = <<>>
       /\ \A c \in ChainIds :
             (Did(last, "add_foreign_chain", c) /\ last'.op = "get_paymasters"
              /\ last'.args[1] = c)
             => last'.out = Some(<<>>)]_vars

\* Chain 56 was removed while its pool held two paymasters, and is gone.
C11_Witness ==
    /\ Did(last, "remove_foreign_chain", 56)
    /\ last.pre # None
    /\ Len(last.pre[1].paymasters) = 2
    /\ 56 \notin DOMAIN foreign_chains

\* The key paths of the pool v, each as often as it occurs
KeyPathsOf(v) == [j \in 1..Len(v) |-> v[j].key_path]

\* No paymaster of any pool has a key path that parses as an account id.
NoAccountIdKeyPath ==
    \A c \in DOMAIN foreign_chains :
        \A j \in 1..Len(foreign_chains[c].paymasters) :
            ~is_valid_account_id(foreign_chains[c].paymasters[j].key_path)

\* C12: in every reachable state no paymaster has a key_path that parses as a
\* valid account id: add_paymaster with such a key_path fails and leaves every
\* pool unchanged; a successful add_paymaster adds its own key_path and no
\* other; set_paymaster_nonce leaves every key_path where it is;
\* remove_paymaster only takes one out; add_foreign_chain leaves the chain
\* with no key_path at all.
C12_KeyPathNeverAccountId ==
    /\ []NoAccountIdKeyPath
    /\ [][LET c == last'.args[1]
              old == IF c \in DOMAIN foreign_chains
                     THEN KeyPathsOf(foreign_chains[c].paymasters) ELSE <<>>
              new == IF c \in DOMAIN foreign_chains'
                     THEN KeyPathsOf(foreign_chains'[c].paymasters) ELSE <<>>
          IN /\ (last'.op = "add_paymaster" /\ is_valid_account_id(last'.args[3]))
                => (last'.err = ErrKeyPath /\ NoEffect)
             /\ (last'.op = "add_paymaster" /\ last'.err = OK)
                => new = Append(old, last'.args[3])
             /\ last'.op = "set_paymaster_nonce" => new = old
             /\ (last'.op = "remove_paymaster" /\ last'.err = OK)
                => /\ Len(new) = Len(old) - 1
                   /\ \A k \in Range(new) : Count(new, k) <= Count(old, k)
             /\ (last'.op = "add_foreign_chain" /\ last'.err = OK) => new = <<>>
             /\ last'.op \in {"add_paymaster", "set_paymaster_nonce", "remove_paymaster",
                              "add_foreign_chain"}
                => \A d \in DOMAIN foreign_chains \ {c} :
                      /\ d \in DOMAIN foreign_chains'
                      /\ KeyPathsOf(foreign_chains'[d].paymasters)
                            = KeyPathsOf(foreign_chains[d].paymasters)]_vars

\* The owner's add_paymaster with the key path pm, a valid account id, was
\* refused on a chain that holds paymasters.
C12_Witness ==
    /\ last.op = "add_paymaster"
    /\ last.caller = OwnerId
    /\ last.args[3] = <<"p", "m">>
    /\ last.err = ErrKeyPath
    /\ 56 \in DOMAIN foreign_chains
    /\ Len(foreign_chains[56].paymasters) = 2

\* C19: add_paymaster(chain, nonce, key_path) by the owner on a known chain
\* with a key_path that is no account id returns the pool length before the
\* call, makes the pool one longer, places (nonce, key_path) at the returned
\* index, and leaves every earlier entry, the chain's cursor and other
\* configuration fields, and every other chain unchanged.
C19_AppendReturnsIndex ==
    [][(/\ last'.op = "add_paymaster"
        /\ assert_owner(last'.caller)
        /\ last'.args[1] \in DOMAIN foreign_chains
        /\ ~is_valid_account_id(last'.args[3]))
       => LET c == last'.args[1]
              old == foreign_chains[c].paymasters
              new == foreign_chains'[c].paymasters
              index == last'.out[1]
          IN /\ last'.err = OK
             /\ index = Len(old)
             /\ Len(new) = Len(old) + 1
             /\ new[index + 1] = [nonce |-> last'.args[2], key_path |-> last'.args[3]]
             /\ \A j \in 1..Len(old) : new[j] = old[j]
             /\ foreign_chains'[c] = [foreign_chains[c] EXCEPT !.paymasters = new]
             /\ DOMAIN foreign_chains' = DOMAIN foreign_chains
             /\ \A d \in DOMAIN foreign_chains \ {c} : foreign_chains'[d] = foreign_chains[d]]_vars

\* A third paymaster was added to chain 56 behind two different ones, with the
\* cursor advanced, and the call returned 2.
C19_Witness ==
    /\ last.op = "add_paymaster"
    /\ last.err = OK
    /\ last.args[1] = 56
    /\ last.out = Some(2)
    /\ Len(foreign_chains[56].paymasters) = 3
    /\ foreign_chains[56].paymasters[1] # foreign_chains[56].paymasters[3]
    /\ foreign_chains[56].next_paymaster > 0

----
\* Signer key properties

\* C13: the cached key takes a new value only in the continuation
\* refresh_signer_public_key_callback, run by the contract itself with a
\* successful remote result, and the value is the key of that result; issuing
\* refresh_signer_public_key changes neither the key nor the signer id; the
\* continuation called by any other account fails and changes nothing; every
\* other operation leaves the key as it is, and set_signer_contract_id can
\* only clear it.
C13_KeyCommittedByContinuationOnly ==
    [][/\ (/\ signer_contract_public_key' # signer_contract_public_key
           /\ signer_contract_public_key' # None)
          => /\ last'.op = Callback
             /\ last'.caller = current_account_id
             /\ last'.err = OK
             /\ last'.args[1][1] = "Ok"
             /\ signer_contract_public_key' = Some(last'.args[1][2])
       /\ last'.op = "refresh_signer_public_key"
          => UNCHANGED <<signer_contract_public_key, signer_contract_id>>
       /\ (last'.op = Callback /\ last'.caller # current_account_id)
          => (last'.err = ErrPrivate /\ NoEffect)
       /\ last'.op \notin {Callback, "set_signer_contract_id"}
          => UNCHANGED signer_contract_public_key
       /\ last'.op = "set_signer_contract_id"
          => signer_contract_public_key' \in {signer_contract_public_key, None}]_vars

\* The contract ran the continuation of a refresh issued after the signer was
\* set to signer-b, and the key of signer-b is cached.
C13_Witness ==
    /\ last.op = Callback
    /\ last.caller = current_account_id
    /\ last.err = OK
    /\ signer_contract_id = "signer-b.near"
    /\ signer_contract_public_key = Some(PublicKeyOf("signer-b.near"))

\* C14: the continuation run with a failed remote result aborts with the
\* error of the failed key load and stores no key: the cached key, the signer
\* contract id and the rest of the contract state are what they were before it
\* ran, whether the key was absent or present.
C14_FailedRefreshKeepsState ==
    [][(/\ last'.op = Callback
        /\ last'.caller = current_account_id
        /\ last'.args[1][1] = "Err")
       => /\ last'.err = ErrSignerKey
          /\ last'.out = None
          /\ UNCHANGED <<signer_contract_public_key, signer_contract_id>>
          /\ UNCHANGED <<contract, transfers>>]_vars

\* A continuation failed after the signer was changed: the key is still
\* absent, and one more refresh is in flight.
C14_Witness ==
    /\ last.op = Callback
    /\ last.err = ErrSignerKey
    /\ signer_contract_id = "signer-b.near"
    /\ signer_contract_public_key = None
    /\ Len(promises) = 1

----
\* Missing chains, indices and fee entries

ChainOps ==
    {"set_foreign_chain_oracle_asset_id", "set_foreign_chain_transfer_gas", "add_paymaster",
     "set_paymaster_nonce", "remove_paymaster", "get_paymasters"}

\* The step is a call that names a chain the registry does not hold.
UnknownChainCall == last'.op \in ChainOps /\ last'.args[1] \notin DOMAIN foreign_chains

\* The step is a call on a known chain with an index at or past the pool's end.
IndexPastEnd ==
    /\ last'.op \in {"set_paymaster_nonce", "remove_paymaster"}
    /\ last'.args[1] \in DOMAIN foreign_chains
    /\ last'.args[2] >= Len(foreign_chains[last'.args[1]].paymasters)

\* The step is a withdrawal of an asset the fee ledger has no entry for.
NoFeeEntry == last'.op = Withdraw /\ last'.args[2] \notin DOMAIN collected_fees

\* C15: a call that names an unknown chain (the two setters, add_paymaster,
\* set_paymaster_nonce, remove_paymaster, get_paymasters), an index at or past
\* the pool length (set_paymaster_nonce, remove_paymaster) or a fee asset with
\* no ledger entry (withdraw_collected_fees) fails, changes nothing and creates
\* no entry; when the owner makes it, with the deposit attached and a key path
\* that is no account id, the error names what is missing.
C15_MissingTargetFails ==
    [][/\ (UnknownChainCall \/ IndexPastEnd \/ NoFeeEntry)
          => /\ last'.err # OK
             /\ NoEffect
             /\ DOMAIN foreign_chains' = DOMAIN foreign_chains
             /\ DOMAIN collected_fees' = DOMAIN collected_fees
       /\ (/\ UnknownChainCall
           /\ last'.op = "get_paymasters" \/ assert_owner(last'.caller)
           /\ last'.op = "add_paymaster" => ~is_valid_account_id(last'.args[3]))
          => last'.err = ErrNoChain
       /\ (IndexPastEnd /\ assert_owner(last'.caller)) => last'.err = ErrIndex
       /\ (NoFeeEntry /\ assert_owner(last'.caller) /\ last'.args[1] = 1)
          => last'.err = ErrNoFee]_vars

\* set_paymaster_nonce with index 2 was refused on a pool of two entries on
\* chain 56, with chain 137 registered as well.
C15_Witness ==
    /\ last.op = "set_paymaster_nonce"
    /\ last.err = ErrIndex
    /\ last.args[1] = 56
    /\ last.args[2] = 2
    /\ Len(foreign_chains[56].paymasters) = 2
    /\ 137 \in DOMAIN foreign_chains

----
\* Gas cost estimate and chain configuration properties

\* C17: estimate_gas_cost prices (transaction.gas + chain.transfer_gas) *
\* transaction.gas_price with the chain's fee rate and the oracle quotes of the
\* chain's asset and the home asset, up to the rounding of the last unit; at
\* fee rate (1,1) and equal quotes the result is that product, and for
\* transfer_gas 21000, gas 50000 and gas_price 1 it is 71000.  It fails when
\* the transaction's chain is not registered or the request did not decode,
\* and it never changes state.
C17_EstimateGasCost ==
    [][last'.op = "estimate_gas_cost"
       => LET decoded == last'.args[1]
              price_data == last'.args[2]
              transaction == decoded[2]
              chain == foreign_chains[transaction.chain_id]
              foreign == (transaction.gas + chain.transfer_gas) * transaction.gas_price
              scaled == foreign * price_data[chain.oracle_asset_id] * chain.fee_rate[1]
              by == price_data[oracle_local_asset_id] * chain.fee_rate[2]
              cost == last'.out[1]
          IN /\ UNCHANGED <<contract, promises, transfers>>
             /\ IF decoded[1] = "Err" THEN last'.err = ErrInvalidTx /\ last'.out = None
                ELSE IF transaction.chain_id \notin DOMAIN foreign_chains
                THEN last'.err # OK /\ last'.out = None
                ELSE /\ last'.err = OK
                     /\ cost * by <= scaled + (by - 1)
                     /\ cost * by >= scaled - (by - 1)
                     /\ (/\ chain.fee_rate = <<1, 1>>
                         /\ price_data[chain.oracle_asset_id] = price_data[oracle_local_asset_id])
                        => cost = foreign
                     /\ (/\ chain.fee_rate = <<1, 1>>
                         /\ price_data[chain.oracle_asset_id] = price_data[oracle_local_asset_id]
                         /\ chain.transfer_gas = 21000
                         /\ transaction.gas = 50000
                         /\ transaction.gas_price = 1)
                        => cost = 71000]_vars

\* The estimate for gas 50000 at gas price 1 on chain 56, registered with
\* transfer gas 21000 and fee rate (1,1), at equal quotes, is 71000.
C17_Witness ==
    /\ last.op = "estimate_gas_cost"
    /\ last.err = OK
    /\ last.args[1] = <<"Ok", [chain_id |-> 56, gas |-> 50000, gas_price |-> 1]>>
    /\ last.args[2]["bnb-usd"] = 1
    /\ last.args[2][oracle_local_asset_id] = 1
    /\ 56 \in DOMAIN foreign_chains
    /\ foreign_chains[56].transfer_gas = 21000
    /\ foreign_chains[56].fee_rate = <<1, 1>>
    /\ last.out = Some(71000)

\* C18: add_foreign_chain(c, ...) by the owner always succeeds, whether or not
\* c was registered: afterwards c has the given oracle asset id, transfer gas
\* and fee rate, an empty paymaster pool and cursor 0, so a chain registered
\* before loses its paymasters without notice and get_paymasters(c) is empty;
\* the configurations of the other chains and the rest of the contract state
\* are unchanged.
C18_AddForeignChainReplaces ==
    [][/\ (last'.op = "add_foreign_chain" /\ assert_owner(last'.caller))
          => LET c == last'.args[1] IN
             /\ last'.err = OK
             /\ DOMAIN foreign_chains' = DOMAIN foreign_chains \cup {c}
             /\ foreign_chains'[c].oracle_asset_id = last'.args[2]
             /\ foreign_chains'[c].transfer_gas = last'.args[3]
             /\ foreign_chains'[c].fee_rate = last'.args[4]
             /\ foreign_chains'[c].paymasters = <<>>
             /\ foreign_chains'[c].next_paymaster = 0
             /\ \A d \in DOMAIN foreign_chains \ {c} : foreign_chains'[d] = foreign_chains[d]
             /\ ChainFrame
       /\ (/\ last.op = "add_foreign_chain"
           /\ last.err = OK
           /\ last'.op = "get_paymasters"
           /\ last'.args[1] = last.args[1])
          => (last'.err = OK /\ last'.out = Some(<<>>))]_vars

\* Chain 56 was added over a configuration with another oracle asset id,
\* transfer gas and fee rate, two paymasters and an advanced cursor, with
\* chain 137 registered.
C18_Witness ==
    /\ last.op = "add_foreign_chain"
    /\ last.err = OK
    /\ last.args[1] = 56
    /\ last.pre # None
    /\ last.pre[1].oracle_asset_id # last.args[2]
    /\ last.pre[1].transfer_gas # last.args[3]
    /\ last.pre[1].fee_rate # last.args[4]
    /\ Len(last.pre[1].paymasters) = 2
    /\ last.pre[1].next_paymaster > 0
    /\ foreign_chains[56].paymasters = <<>>
    /\ 137 \in DOMAIN foreign_chains

----
\* Fee withdrawal properties

\* C16: withdraw_collected_fees succeeds only with exactly one yoctoNEAR
\* attached: a call with any other deposit, by the owner or anyone else and
\* whatever asset, amount and receiver it names, fails on the deposit check,
\* changes no fee balance and hands out no transfer.
C16_WithdrawNeedsOneYocto ==
    [][last'.op = Withdraw
       => /\ last'.err = OK => last'.args[1] = 1
          /\ last'.args[1] # 1
             => /\ last'.err = ErrOneYocto
                /\ NoEffect
                /\ UNCHANGED <<collected_fees, transfers>>]_vars

\* The owner asked for one unit of an asset with a positive balance without
\* attaching the deposit, and was refused.
C16_Witness ==
    /\ last.op = Withdraw
    /\ last.caller = OwnerId
    /\ last.args[1] = 0
    /\ last.args[3] = Some(1)
    /\ last.err = ErrOneYocto
    /\ last.args[2] \in DOMAIN collected_fees
    /\ collected_fees[last.args[2]] >= 1

\* The recorded balance of asset a, zero when the ledger has no entry for it
Balance(fees, a) == IF a \in DOMAIN fees THEN fees[a] ELSE 0

\* C20: withdrawals keep, for each asset, the recorded balance plus the total
\* handed to the asset transfer: nothing is handed out at the start and every
\* call keeps the sum.  A successful withdrawal transfers the amount asked, or
\* the whole balance when none is named, takes exactly that from the asset's
\* balance, sends it to the receiver named or else to the current owner, and
\* leaves the other assets' balances alone; a failed one transfers nothing and
\* changes no balance.
C20_FeesConserved ==
    /\ [](last.op = "new" => \A a \in AssetIds : transfers[a] = 0)
    /\ [][/\ \A a \in AssetIds :
                Balance(collected_fees', a) + transfers'[a]
                    = Balance(collected_fees, a) + transfers[a]
          /\ DOMAIN collected_fees' = DOMAIN collected_fees
          /\ (last'.op = Withdraw /\ last'.err = OK)
             => LET a == last'.args[2]
                    sent == last'.out[1]
                IN /\ sent.asset_id = a
                   /\ sent.amount = IF last'.args[3] = None THEN collected_fees[a]
                                    ELSE last'.args[3][1]
                   /\ sent.receiver_id = IF last'.args[4] = None THEN owner[1]
                                         ELSE last'.args[4][1]
                   /\ collected_fees'[a] = collected_fees[a] - sent.amount
                   /\ collected_fees'[a] >= 0
                   /\ transfers'[a] = transfers[a] + sent.amount
                   /\ \A b \in AssetIds \ {a} :
                         /\ transfers'[b] = transfers[b]
                         /\ b \in DOMAIN collected_fees => collected_fees'[b] = collected_fees[b]
          /\ (last'.op = Withdraw /\ last'.err # OK)
             => UNCHANGED <<collected_fees, transfers>>]_vars

\* After withdrawals of both assets, one unit of a balance of two went to the
\* treasury and one unit stays recorded.
C20_Witness ==
    /\ last.op = Withdraw
    /\ last.err = OK
    /\ last.args[3] = Some(1)
    /\ last.out[1].receiver_id = "treasury.near"
    /\ last.pre[1][last.args[2]] = 2
    /\ collected_fees[last.args[2]] = 1
    /\ \A a \in AssetIds : transfers[a] > 0

====
